---- MODULE Spec2Model ----
(***************************************************************************)
(* Othello: the board model (OthelloState), the evaluator, the best-first  *)
(* move search (OthelloAI.a_star_search over a heapq frontier) and the     *)
(* game loop of src/main.py.                                               *)
(*                                                                         *)
(* A numpy board is an array object: the model keeps a store of arrays     *)
(* and OthelloState values refer to an array by its index in the store, so *)
(* that copying and writing in place are distinguishable.                  *)
(***************************************************************************)
EXTENDS Integers, Sequences, FiniteSets, TLC

\* ------------------------------------------------------------------ bounds
\* plies played from a start board before make_move is exercised on it
MaxPlies == 3
\* number of cells of row 0 (from the corner) with arbitrary content in the
\* hand-built boards passed to OthelloState(board)
Window == 4
\* plies played from the default board to obtain the roots of a search
RootPlies == 0
\* number of cells of row 0 after the corner with arbitrary content in the
\* further hand-built boards a search starts from
RootWindow == 5
\* largest max_depth a search is started with
MaxDepthBound == 4
\* input() calls the game model follows (pairs of row and col)
MaxInputs == 7
\* how many of them may name a cell outside White's valid moves
MaxInvalid == 1

\* --------------------------------------------------------------- constants
N == 8
Empty == 0
Black == 1
White == -1
DefaultMaxDepth == 4
corner_weight == 4
edge_weight == 2

None == <<>>
Idx == 0 .. (N - 1)
Players == {Black, White}

directions ==
  << <<0, 1>>, <<1, 0>>, <<0, -1>>, <<-1, 0>>,
     <<1, 1>>, <<-1, -1>>, <<1, -1>>, <<-1, 1>> >>

\* ------------------------------------------------------------ OthelloState
EmptyBoard == [i \in Idx |-> [j \in Idx |-> Empty]]

\* a default board with each colour on a row instead of a diagonal
InitialBoard_rows ==
  [EmptyBoard EXCEPT ![3][3] = 1, ![3][4] = 1, ![4][3] = -1, ![4][4] = -1]

\* a default board with the two colours exchanged
InitialBoard_swapped ==
  [EmptyBoard EXCEPT ![3][3] = -1, ![3][4] = 1, ![4][3] = 1, ![4][4] = -1]

\* OthelloState(): np.zeros((8, 8)) then board[3:5, 3:5] = [[1, -1], [-1, 1]]
InitialBoard ==
  [EmptyBoard EXCEPT ![3][3] = 1, ![3][4] = -1, ![4][3] = -1, ![4][4] = 1]

InBoard(x, y) == (0 <= x /\ x < N) /\ (0 <= y /\ y < N)

\* a _would_flip that accepts a piece of the player right next to the cell
RECURSIVE would_flip_loop_adjacent(_, _, _, _, _, _, _)
would_flip_loop_adjacent(board, x, y, dx, dy, player, to_flip) ==
  IF ~InBoard(x, y) THEN FALSE
  ELSE IF board[x][y] = 0 THEN FALSE
  ELSE IF board[x][y] = player THEN TRUE
  ELSE would_flip_loop_adjacent(board, x + dx, y + dy, dx, dy, player,
                                Append(to_flip, <<x, y>>))

\* the while loop of _would_flip, entered at (x, y) with to_flip collected so far
RECURSIVE would_flip_loop(_, _, _, _, _, _, _)
would_flip_loop(board, x, y, dx, dy, player, to_flip) ==
  IF ~InBoard(x, y) THEN FALSE
  ELSE IF board[x][y] = 0 THEN FALSE
  ELSE IF board[x][y] = player THEN Len(to_flip) > 0
  ELSE would_flip_loop(board, x + dx, y + dy, dx, dy, player,
                       Append(to_flip, <<x, y>>))

would_flip(board, row, col, dx, dy, player) ==
  would_flip_loop(board, row + dx, col + dy, dx, dy, player, <<>>)

\* an is_valid_move without the test that the cell is empty
is_valid_move_occupied(board, row, col, player) ==
  \E d \in 1 .. 8 :
    would_flip(board, row, col, directions[d][1], directions[d][2], player)

is_valid_move(board, row, col, player) ==
  IF board[row][col] # 0 THEN FALSE
  ELSE \E d \in 1 .. Len(directions) :
         would_flip(board, row, col, directions[d][1], directions[d][2], player)

\* the cells in the order of the two nested range(8) loops
RowMajor == [k \in 1 .. (N * N) |-> <<(k - 1) \div N, (k - 1) % N>>]

get_valid_moves(board, player) ==
  SelectSeq(RowMajor, LAMBDA m : is_valid_move(board, m[1], m[2], player))

\* a capture that takes the collected pieces off the board
RECURSIVE write_flips_remove(_, _, _, _)
write_flips_remove(arrays, self, to_flip, player) ==
  IF to_flip = <<>> THEN arrays
  ELSE write_flips_remove([arrays EXCEPT ![self][Head(to_flip)[1]][Head(to_flip)[2]] = Empty],
                          self, Tail(to_flip), player)

\* self.board[flip_x, flip_y] = player for every collected cell, in place
RECURSIVE write_flips(_, _, _, _)
write_flips(arrays, self, to_flip, player) ==
  IF to_flip = <<>> THEN arrays
  ELSE write_flips([arrays EXCEPT ![self][Head(to_flip)[1]][Head(to_flip)[2]] = player],
                   self, Tail(to_flip), player)

\* a _flip_direction that also flips a run ended by an empty cell
RECURSIVE flip_direction_loop_gap(_, _, _, _, _, _, _, _)
flip_direction_loop_gap(arrays, self, x, y, dx, dy, player, to_flip) ==
  IF ~InBoard(x, y) THEN arrays
  ELSE IF arrays[self][x][y] = 0 THEN write_flips(arrays, self, to_flip, player)
  ELSE IF arrays[self][x][y] = player THEN write_flips(arrays, self, to_flip, player)
  ELSE flip_direction_loop_gap(arrays, self, x + dx, y + dy, dx, dy, player,
                               Append(to_flip, <<x, y>>))

\* the while loop of _flip_direction; the result is the store after the call
RECURSIVE flip_direction_loop(_, _, _, _, _, _, _, _)
flip_direction_loop(arrays, self, x, y, dx, dy, player, to_flip) ==
  IF ~InBoard(x, y) THEN arrays
  ELSE IF arrays[self][x][y] = 0 THEN arrays
  ELSE IF arrays[self][x][y] = player THEN write_flips(arrays, self, to_flip, player)
  ELSE flip_direction_loop(arrays, self, x + dx, y + dy, dx, dy, player,
                           Append(to_flip, <<x, y>>))

flip_direction(arrays, self, row, col, dx, dy, player) ==
  flip_direction_loop(arrays, self, row + dx, col + dy, dx, dy, player, <<>>)

\* for dx, dy in directions: new_state._flip_direction(...), from direction d on
RECURSIVE flip_all(_, _, _, _, _, _)
flip_all(arrays, self, row, col, player, d) ==
  IF d > Len(directions) THEN arrays
  ELSE flip_all(flip_direction(arrays, self, row, col,
                               directions[d][1], directions[d][2], player),
                self, row, col, player, d + 1)

\* a make_move that wraps the receiver's own array instead of a copy of it
make_move_shared(arrays, self, row, col, player) ==
  IF ~is_valid_move(arrays[self], row, col, player)
    THEN [arrays |-> arrays, ret |-> None]
    ELSE [arrays |-> flip_all([arrays EXCEPT ![self][row][col] = player],
                              self, row, col, player, 1),
          ret |-> <<self>>]

\* make_move on the OthelloState whose array is arrays[self]: the store after
\* the call and the returned state (None, or <<ref>> of the new state's array)
make_move(arrays, self, row, col, player) ==
  IF ~is_valid_move(arrays[self], row, col, player)
    THEN [arrays |-> arrays, ret |-> None]
    ELSE LET new == Len(arrays) + 1
             copied == Append(arrays, arrays[self])
             placed == [copied EXCEPT ![new][row][col] = player]
         IN  [arrays |-> flip_all(placed, new, row, col, player, 1),
              ret |-> <<new>>]

\* the board of the state make_move returns for a receiver holding `board`
\* (None when it returns None)
next_board(board, row, col, player) ==
  LET out == make_move(<<board>>, 1, row, col, player)
  IN  IF out.ret = None THEN None ELSE out.arrays[out.ret[1]]

\* ---------------------------------------------------------------- evaluate
\* a corner test that takes every border cell for a corner
cell_value_border(board, i, j) ==
  LET mult == IF (i \in {0, 7} \/ j \in {0, 7}) THEN corner_weight
              ELSE 1
  IN  board[i][j] * mult

\* the inner statements of the two loops of evaluate for cell (i, j)
cell_value(board, i, j) ==
  LET mult == IF (i \in {0, 7} /\ j \in {0, 7}) THEN corner_weight
              ELSE IF (i \in {0, 7} \/ j \in {0, 7}) THEN edge_weight
              ELSE 1
  IN  board[i][j] * mult

\* what the inner loop adds to value for row i, from column j on
RECURSIVE evaluate_row(_, _, _)
evaluate_row(board, i, j) ==
  IF j >= N THEN 0
  ELSE cell_value(board, i, j) + evaluate_row(board, i, j + 1)

\* what the outer loop adds to value from row i on
RECURSIVE evaluate_rows(_, _)
evaluate_rows(board, i) ==
  IF i >= N THEN 0
  ELSE evaluate_row(board, i, 0) + evaluate_rows(board, i + 1)

evaluate(board) == 0 + evaluate_rows(board, 0)

\* ------------------------------------------------------- SearchNode, heapq
SearchNode(f_score, g_score, state, path) ==
  [f_score |-> f_score, g_score |-> g_score, state |-> state, path |-> path]

\* a __lt__ that also holds between equal scores
lt_or_equal(a, b) == a.f_score <= b.f_score

\* SearchNode.__lt__
lt(a, b) == a.f_score < b.f_score

\* heapq._siftdown(heap, startpos, pos); Python position p is index p + 1
RECURSIVE siftdown_loop(_, _, _, _)
siftdown_loop(heap, startpos, pos, newitem) ==
  IF pos > startpos
    THEN LET parentpos == (pos - 1) \div 2
             parent == heap[parentpos + 1]
         IN  IF lt(newitem, parent)
               THEN siftdown_loop([heap EXCEPT ![pos + 1] = parent],
                                  startpos, parentpos, newitem)
               ELSE [heap EXCEPT ![pos + 1] = newitem]
    ELSE [heap EXCEPT ![pos + 1] = newitem]

siftdown(heap, startpos, pos) == siftdown_loop(heap, startpos, pos, heap[pos + 1])

heappush(heap, item) == siftdown(Append(heap, item), 0, Len(heap))

\* heapq._siftup(heap, pos): bubble the smaller child up to a leaf, then sift down
RECURSIVE siftup_loop(_, _, _, _, _)
siftup_loop(heap, startpos, pos, endpos, newitem) ==
  LET childpos == 2 * pos + 1
  IN  IF childpos < endpos
        THEN LET rightpos == childpos + 1
                 chosen == IF rightpos < endpos
                              /\ ~lt(heap[childpos + 1], heap[rightpos + 1])
                           THEN rightpos ELSE childpos
             IN  siftup_loop([heap EXCEPT ![pos + 1] = heap[chosen + 1]],
                             startpos, chosen, endpos, newitem)
        ELSE siftdown([heap EXCEPT ![pos + 1] = newitem], startpos, pos)

siftup(heap, pos) == siftup_loop(heap, pos, pos, Len(heap), heap[pos + 1])

\* heappop of a non-empty heap: the returned item and the heap left
heappop(heap) ==
  LET lastelt == heap[Len(heap)]
      rest == SubSeq(heap, 1, Len(heap) - 1)
  IN  IF rest # <<>>
        THEN [item |-> rest[1], heap |-> siftup([rest EXCEPT ![1] = lastelt], 0)]
        ELSE [item |-> lastelt, heap |-> rest]

\* ------------------------------------------------------------------ state
VARIABLES
  arrays,     \* the store of board arrays, a sequence; a ref is an index
  self,       \* ref of the array of the OthelloState under test
  call,       \* <<>> or <<c>>: the last is_valid_move / make_move call on it
  plies,      \* moves applied to the start board so far
  root,       \* a_star_search: board of initial_state
  player,     \* OthelloAI.player
  max_depth,  \* a_star_search: max_depth
  frontier,   \* the heap list
  explored,   \* the set of state hashes
  pc,         \* "idle", "loop" (inside the while loop) or "done" (returned)
  result,     \* the value a_star_search returned
  cur,        \* <<>> or <<current_node>> of the last iteration
  outcome,    \* what the last iteration did
  pops,       \* number of heappop calls so far
  expanded,   \* the nodes this search has expanded so far, in order
  scores,     \* the f_score of every node this search has popped, in order
  prior,      \* None, or what the search run before this one did
  state,      \* play_game: the board of `state`, None once make_move gave None
  turn,       \* play_game: where the program is in the loop body
  last,       \* play_game: what the last turn did
  inputs,     \* play_game: (row, col) pairs read from the human so far
  refused     \* play_game: how many of them were not a valid move

boardVars == <<arrays, self, call, plies>>
searchVars == <<root, player, max_depth, frontier, explored, pc, result, cur,
                outcome, pops, expanded, scores, prior>>
gameVars == <<state, turn, last, inputs, refused>>
vars == <<arrays, self, call, plies, root, player, max_depth, frontier,
          explored, pc, result, cur, outcome, pops, expanded, scores, prior,
          state, turn, last, inputs, refused>>

\* ------------------------------------------------------------ input boards
\* OthelloState(board) on a hand-built array: row 0 holds any values in its
\* first Window cells, every other cell is empty
WindowBoards ==
  { [EmptyBoard EXCEPT ![0] = [j \in Idx |-> IF j < Window THEN f[j] ELSE Empty]] :
      f \in [0 .. (Window - 1) -> {Empty, Black, White}] }

Successors(board) ==
  { next_board(board, m[1], m[2], p) :
      <<m, p>> \in { <<c, q>> \in (Idx \X Idx) \X Players :
                       is_valid_move(board, c[1], c[2], q) } }

\* the boards a game reaches from the boards S in at most n moves
RECURSIVE Reach(_, _)
Reach(S, n) ==
  IF n = 0 THEN S ELSE S \cup Reach(UNION { Successors(b) : b \in S }, n - 1)

StartBoards == {InitialBoard} \cup WindowBoards

\* further hand-built boards a search starts from: row 0 holds any values in
\* the RootWindow cells after its empty corner
RootWindowBoards ==
  { [EmptyBoard EXCEPT ![0] = [j \in Idx |-> IF 1 <= j /\ j <= RootWindow
                                               THEN f[j] ELSE Empty]] :
      f \in [1 .. RootWindow -> {Empty, Black, White}] }

RootBoards ==
  Reach({InitialBoard}, RootPlies) \cup WindowBoards \cup RootWindowBoards

\* ------------------------------------------------- the board model at work
\* what a turn of play_game leaves behind: who acted, how ("place", "pass",
\* "invalid"), the move placed, the board before, and who had placed the
\* piece before that (0: nobody)
Turn(who, kind, move, before, prev) ==
  [who |-> who, kind |-> kind, move |-> move, before |-> before, prev |-> prev]

GameIdle ==
  /\ state = EmptyBoard
  /\ turn = "idle"
  /\ last = Turn(0, "start", None, None, 0)
  /\ inputs = 0
  /\ refused = 0

SearchIdle ==
  /\ root = EmptyBoard
  /\ player = Black
  /\ max_depth = 0
  /\ frontier = <<>>
  /\ explored = {}
  /\ pc = "idle"
  /\ result = None
  /\ cur = <<>>
  /\ outcome = "idle"
  /\ pops = 0
  /\ expanded = <<>>
  /\ scores = <<>>
  /\ prior = None

InitBoard ==
  /\ arrays \in { <<b>> : b \in StartBoards }
  /\ self = 1
  /\ call = <<>>
  /\ plies = 0
  /\ SearchIdle
  /\ GameIdle

\* is_valid_move(row, col, player) and make_move(row, col, player) on the state
Call(row, col, p) ==
  /\ call = <<>>
  /\ LET out == make_move(arrays, self, row, col, p)
     IN  /\ arrays' = out.arrays
         /\ call' = << [row |-> row, col |-> col, player |-> p,
                        before |-> arrays[self],
                        valid |-> is_valid_move(arrays[self], row, col, p),
                        ret |-> out.ret] >>
  /\ UNCHANGED <<self, plies>>
  /\ UNCHANGED searchVars
  /\ UNCHANGED gameVars

\* state = state.make_move(...): the returned state replaces the receiver
Adopt ==
  /\ call # <<>>
  /\ call[1].ret # None
  /\ plies < MaxPlies
  /\ arrays' = << arrays[call[1].ret[1]] >>
  /\ self' = 1
  /\ call' = <<>>
  /\ plies' = plies + 1
  /\ UNCHANGED searchVars
  /\ UNCHANGED gameVars

NextBoard ==
  \/ \E row \in Idx, col \in Idx, p \in Players : Call(row, col, p)
  \/ Adopt

SpecBoard == InitBoard /\ [][NextBoard]_vars

\* ------------------------------------------------------------ OthelloAI
\* a fingerprint of the first row only
state_hash_row(board) == [k \in 1 .. N |-> board[0][k - 1]]

\* str(board.tobytes()): the 64 cell values row by row
state_hash(board) == [k \in 1 .. (N * N) |-> board[RowMajor[k][1]][RowMajor[k][2]]]

\* a parity test the wrong way round
mover_swapped(me, g_score) == IF g_score % 2 = 0 THEN -me ELSE me

\* self.player if g_score % 2 == 0 else -self.player
mover(me, g_score) == IF g_score % 2 = 0 THEN me ELSE -me

\* a path that records every move
new_path_append(path, move) == path \o <<move>>

\* a path that keeps the latest move instead of the first
new_path_latest(path, move) == <<move>>

\* path + [move] if not path else path
new_path(path, move) == IF path = <<>> THEN path \o <<move>> ELSE path

\* a heuristic that takes Black's view for either player
h_score_black(me, board) == evaluate(board)

\* -next_state.evaluate() if self.player == -1 else next_state.evaluate()
h_score(me, board) == IF me = -1 THEN -evaluate(board) ELSE evaluate(board)

\* the for loop over moves, from the k-th move on: the heap it leaves
RECURSIVE expand(_, _, _, _, _)
expand(heap, node, me, moves, k) ==
  IF k > Len(moves) THEN heap
  ELSE LET move == moves[k]
           next_state == next_board(node.state, move[1], move[2],
                                    mover(me, node.g_score))
       IN  IF next_state = None
             THEN expand(heap, node, me, moves, k + 1)
             ELSE expand(heappush(heap,
                                  SearchNode(node.g_score + 1 + h_score(me, next_state),
                                             node.g_score + 1, next_state,
                                             new_path(node.path, move))),
                         node, me, moves, k + 1)

\* a depth test that lets a node of the maximum depth through
cutoff_strict(g_score, depth) == g_score > depth

\* the depth test on the popped node
cutoff(g_score, depth) == g_score >= depth

\* a_star_search up to the while loop
StartSearch(board, me, depth) ==
  /\ root' = board
  /\ player' = me
  /\ max_depth' = depth
  /\ frontier' = heappush(<<>>, SearchNode(0, 0, board, <<>>))
  /\ explored' = {}
  /\ pc' = "loop"
  /\ result' = None
  /\ cur' = <<>>
  /\ outcome' = "start"
  /\ pops' = 0
  /\ expanded' = <<>>
  /\ scores' = <<>>

InitSearch ==
  /\ arrays = <<EmptyBoard>>
  /\ self = 1
  /\ call = <<>>
  /\ plies = 0
  /\ SearchIdle
  /\ GameIdle

\* get_move / a_star_search is called on a board
Begin ==
  /\ pc = "idle"
  /\ \E board \in RootBoards, me \in Players, depth \in 0 .. MaxDepthBound :
       StartSearch(board, me, depth)
  /\ UNCHANGED prior
  /\ UNCHANGED boardVars
  /\ UNCHANGED gameVars

\* one iteration of the while loop
Iterate ==
  /\ pc = "loop"
  /\ frontier # <<>>
  /\ LET popped == heappop(frontier)
         current_node == popped.item
     IN  /\ cur' = <<current_node>>
         /\ pops' = pops + 1
         /\ scores' = Append(scores, current_node.f_score)
         /\ IF cutoff(current_node.g_score, max_depth)
              THEN /\ result' = IF current_node.path # <<>>
                                THEN current_node.path[1] ELSE None
                   /\ pc' = "done"
                   /\ outcome' = "cutoff"
                   /\ frontier' = popped.heap
                   /\ UNCHANGED <<explored, expanded>>
              ELSE IF state_hash(current_node.state) \in explored
                THEN /\ outcome' = "skipped"
                     /\ frontier' = popped.heap
                     /\ UNCHANGED <<explored, expanded, pc, result>>
                ELSE /\ explored' = explored \cup {state_hash(current_node.state)}
                     /\ expanded' = Append(expanded, current_node)
                     /\ frontier' =
                          expand(popped.heap, current_node, player,
                                 get_valid_moves(current_node.state,
                                                 mover(player, current_node.g_score)),
                                 1)
                     /\ outcome' = "expanded"
                     /\ UNCHANGED <<pc, result>>
  /\ UNCHANGED <<root, player, max_depth, prior>>
  /\ UNCHANGED boardVars
  /\ UNCHANGED gameVars

\* the while loop ends on an empty frontier: return None
Exhausted ==
  /\ pc = "loop"
  /\ frontier = <<>>
  /\ result' = None
  /\ pc' = "done"
  /\ outcome' = "exhausted"
  /\ UNCHANGED <<root, player, max_depth, frontier, explored, cur, pops,
                  expanded, scores, prior>>
  /\ UNCHANGED boardVars
  /\ UNCHANGED gameVars

NextSearch == Begin \/ Iterate \/ Exhausted

SpecSearch == InitSearch /\ [][NextSearch]_vars

\* the board with every piece in the other colour
Swap(board) == [i \in Idx |-> [j \in Idx |-> -board[i][j]]]

\* a second call of get_move after the first has returned: by the other
\* colour, on the root board of the first with the colours exchanged
BeginMirror ==
  /\ pc = "done"
  /\ prior = None
  /\ prior' = <<[root |-> root, player |-> player, scores |-> scores,
                 result |-> result, outcome |-> outcome]>>
  /\ StartSearch(Swap(root), -player, max_depth)
  /\ UNCHANGED boardVars
  /\ UNCHANGED gameVars

NextMirror == Begin \/ Iterate \/ Exhausted \/ BeginMirror

SpecMirror == InitSearch /\ [][NextMirror]_vars

\* a step of the while loop, seen from outside: another pop, or the return
LoopStep ==
  /\ pc = "loop"
  /\ pc' \in {"loop", "done"}
  /\ pops' \in {pops, pops + 1}

\* the loop is sequential code: while it is inside the loop it takes its next
\* step (Iterate on a non-empty frontier, Exhausted on an empty one)
SpecSearchFair == SpecSearch /\ WF_<<pc, pops>>(LoopStep)

\* ------------------------------------------------------------- play_game
\* what the human types: the cells of a shortest win of White against this
\* search (some of them occupied or without a capture when typed) and a pair
\* off the board
HumanInputs ==
  {<<2, 3>>, <<2, 5>>, <<0, 3>>, <<4, 5>>, <<2, 1>>, <<0, 0>>, <<1, 5>>,
   <<-1, 8>>}

\* who placed the latest piece after the turn l
placer(l) == IF l.kind = "place" THEN l.who ELSE l.prev

\* a pass test that never passes
not_valid_moves_never(valid_moves) == FALSE

\* if not valid_moves
not_valid_moves(valid_moves) == valid_moves = <<>>

\* an input test that lets every cell of the board through
in_valid_moves_any(move, valid_moves) == InBoard(move[1], move[2])

\* (row, col) in valid_moves
in_valid_moves(move, valid_moves) ==
  \E k \in 1 .. Len(valid_moves) : valid_moves[k] = move

\* state = OthelloState(); ai = OthelloAI(player=1)
InitGame ==
  /\ arrays = <<EmptyBoard>>
  /\ self = 1
  /\ call = <<>>
  /\ plies = 0
  /\ SearchIdle
  /\ state = InitialBoard
  /\ turn = "ai"
  /\ last = Turn(0, "start", None, None, 0)
  /\ inputs = 0
  /\ refused = 0

\* the top of the loop body: print_board(state), then ai.get_move(state)
GetMove ==
  /\ turn = "ai"
  /\ state # None
  /\ StartSearch(state, Black, DefaultMaxDepth)
  /\ turn' = "search"
  /\ UNCHANGED prior
  /\ UNCHANGED <<state, last, inputs, refused>>
  /\ UNCHANGED boardVars

\* get_move has returned: Black passes or places its piece
AiMove ==
  /\ turn = "search"
  /\ pc = "done"
  /\ IF result = None
       THEN /\ state' = state
            /\ last' = Turn(Black, "pass", None, state, placer(last))
       ELSE /\ state' = next_board(state, result[1], result[2], 1)
            /\ last' = Turn(Black, "place", result, state, placer(last))
  /\ turn' = "human"
  /\ UNCHANGED <<inputs, refused>>
  /\ UNCHANGED searchVars
  /\ UNCHANGED boardVars

\* White has no valid move: "continue" without reading input
HumanPass ==
  /\ turn = "human"
  /\ state # None
  /\ not_valid_moves(get_valid_moves(state, -1))
  /\ last' = Turn(White, "pass", None, state, placer(last))
  /\ turn' = "ai"
  /\ UNCHANGED <<state, inputs, refused>>
  /\ UNCHANGED searchVars
  /\ UNCHANGED boardVars

\* the human types the integers row and col
HumanInput(row, col) ==
  /\ turn = "human"
  /\ state # None
  /\ inputs < MaxInputs
  /\ LET valid_moves == get_valid_moves(state, -1)
     IN  /\ ~ not_valid_moves(valid_moves)
         /\ IF in_valid_moves(<<row, col>>, valid_moves)
              THEN /\ state' = next_board(state, row, col, -1)
                   /\ last' = Turn(White, "place", <<row, col>>, state,
                                   placer(last))
                   /\ UNCHANGED refused
              ELSE /\ refused < MaxInvalid
                   /\ state' = state
                   /\ last' = Turn(White, "invalid", None, state, placer(last))
                   /\ refused' = refused + 1
  /\ turn' = "ai"
  /\ inputs' = inputs + 1
  /\ UNCHANGED searchVars
  /\ UNCHANGED boardVars

\* the human types something int() rejects: ValueError ends the program
Malformed ==
  /\ turn = "human"
  /\ state # None
  /\ ~ not_valid_moves(get_valid_moves(state, -1))
  /\ turn' = "raised"
  /\ UNCHANGED <<state, last, inputs, refused>>
  /\ UNCHANGED searchVars
  /\ UNCHANGED boardVars

NextGame ==
  \/ GetMove
  \/ Iterate
  \/ Exhausted
  \/ AiMove
  \/ HumanPass
  \/ \E input \in HumanInputs : HumanInput(input[1], input[2])
  \/ Malformed

SpecGame == InitGame /\ [][NextGame]_vars

\* a step of the loop body that waits for nobody, seen from outside
TurnStep ==
  \/ /\ turn = "ai"
     /\ state # None
     /\ turn' = "search"
  \/ /\ turn = "search"
     /\ pc = "done"
     /\ turn' = "human"
  \/ /\ turn = "human"
     /\ state # None
     /\ not_valid_moves(get_valid_moves(state, -1))
     /\ turn' = "ai"

\* play_game is sequential code: it takes its next step unless it waits for
\* the human at input()
SpecGameFair ==
  SpecGame /\ WF_<<pc, pops>>(LoopStep) /\ WF_turn(TurnStep)

\* ------------------------------------------------ the capture rule, stated
\* the 8 compass offsets
Offsets == { d \in {-1, 0, 1} \X {-1, 0, 1} : d # <<0, 0>> }

Step(row, col, d, s) == <<row + s * d[1], col + s * d[2]>>

Owner(board, cell) == IF InBoard(cell[1], cell[2]) THEN board[cell[1]][cell[2]] ELSE 2

\* from (row, col) along d: k opponent pieces, then a piece of p
Captures(board, row, col, d, p, k) ==
  /\ \A s \in 1 .. k : Owner(board, Step(row, col, d, s)) = -p
  /\ Owner(board, Step(row, col, d, k + 1)) = p

RuleValid(board, row, col, p) ==
  /\ board[row][col] = Empty
  /\ \E d \in Offsets, k \in 1 .. N : Captures(board, row, col, d, p, k)

\* the opponent pieces strictly between (row, col) and the first piece of p
Flipped(board, row, col, p) ==
  UNION { { Step(row, col, dk[1], s) : s \in 1 .. dk[2] } :
            dk \in { e \in Offsets \X (1 .. N) :
                       Captures(board, row, col, e[1], p, e[2]) } }

Changed(old, new) == { c \in Idx \X Idx : old[c[1]][c[2]] # new[c[1]][c[2]] }

\* C1: is_valid_move is true exactly when make_move returns a board, and a
\* returned board differs from the receiver's at the target cell, now the
\* player's, and at some other cell that was the opponent's and is the player's.
C1_ValidIffMoved ==
  call # <<>> =>
    LET c == call[1]
    IN  /\ c.valid <=> (c.ret # None)
        /\ c.ret # None =>
             LET R == arrays[c.ret[1]]
             IN  /\ c.before[c.row][c.col] # c.player
                 /\ R[c.row][c.col] = c.player
                 /\ \E x \in Idx, y \in Idx :
                      /\ <<x, y>> # <<c.row, c.col>>
                      /\ c.before[x][y] = -c.player
                      /\ R[x][y] = c.player

C1_Witness ==
  /\ call # <<>>
  /\ call[1].valid
  /\ call[1].ret # None
  /\ Cardinality(Changed(call[1].before, arrays[call[1].ret[1]])) >= 2

\* C2: is_valid_move is the rule: the cell is empty and in one of the 8
\* directions k >= 1 opponent pieces are followed by a piece of the player,
\* all on the board; an occupied cell or one with no such direction is invalid.
C2_ValidIsRule ==
  call # <<>> =>
    LET c == call[1]
    IN  /\ c.valid <=> RuleValid(c.before, c.row, c.col, c.player)
        /\ c.before[c.row][c.col] # Empty => ~c.valid

\* an empty cell next to an opponent run that reaches the board edge: invalid
C2_Witness ==
  /\ call # <<>>
  /\ ~call[1].valid
  /\ call[1].before[call[1].row][call[1].col] = Empty
  /\ \E d \in Offsets, k \in 1 .. N :
       /\ \A s \in 1 .. k :
            Owner(call[1].before, Step(call[1].row, call[1].col, d, s))
              = -call[1].player
       /\ Owner(call[1].before, Step(call[1].row, call[1].col, d, k + 1)) = 2

\* C3: the board make_move returns differs from the receiver's in exactly the
\* target cell and the opponent pieces between it and the first piece of the
\* player in each direction, computed on the receiver's board; all of them are
\* the player's and every other cell keeps its value.
C3_ExactFlips ==
  (call # <<>> /\ call[1].ret # None) =>
    LET c == call[1]
        R == arrays[c.ret[1]]
        F == Flipped(c.before, c.row, c.col, c.player)
    IN  /\ Changed(c.before, R) = {<<c.row, c.col>>} \cup F
        /\ \A x \in Idx, y \in Idx :
             R[x][y] = IF <<x, y>> \in {<<c.row, c.col>>} \cup F
                       THEN c.player ELSE c.before[x][y]

\* a move that captures in two directions and leaves an opponent piece in place
C3_Witness ==
  /\ call # <<>>
  /\ call[1].ret # None
  /\ \E d \in Offsets, e \in Offsets :
       /\ d # e
       /\ \E j \in 1 .. N, k \in 1 .. N :
            /\ Captures(call[1].before, call[1].row, call[1].col, d, call[1].player, j)
            /\ Captures(call[1].before, call[1].row, call[1].col, e, call[1].player, k)
  /\ \E x \in Idx, y \in Idx : arrays[call[1].ret[1]][x][y] = -call[1].player

\* C4: make_move leaves the receiver's array as it was before the call,
\* whether it returns a board or None, and a returned state has an array of
\* its own.
C4_ReceiverUnchanged ==
  call # <<>> =>
    /\ arrays[self] = call[1].before
    /\ call[1].ret # None => call[1].ret[1] # self

C4_Witness ==
  /\ call # <<>>
  /\ call[1].ret # None
  /\ plies >= 1
  /\ arrays[call[1].ret[1]] # arrays[self]

\* ------------------------------------------------------ the search, stated
Elements(seq) == { seq[i] : i \in 1 .. Len(seq) }

Done == pc = "done"

\* C5: a move returned by the search is one of the searching player's valid
\* moves on the board passed in: in range, on an empty cell, accepted by
\* make_move; it is the one move recorded in the node the search stopped at.
C5_ReturnedMoveIsValid ==
  (Done /\ result # None) =>
    /\ result \in Elements(get_valid_moves(root, player))
    /\ result[1] \in Idx /\ result[2] \in Idx
    /\ root[result[1]][result[2]] = Empty
    /\ next_board(root, result[1], result[2], player) # None
    /\ outcome = "cutoff"
    /\ cur[1].path = <<result>>

C5_Witness ==
  /\ Done
  /\ result # None
  /\ max_depth = DefaultMaxDepth
  /\ cur[1].g_score = DefaultMaxDepth
  /\ pops > DefaultMaxDepth + 1

\* C6: with the default maximum depth the search returns None only when the
\* searching player has no valid move on the board passed in.
C6_NoMoveOnlyAsPass ==
  (Done /\ max_depth = DefaultMaxDepth /\ result = None) =>
    get_valid_moves(root, player) = <<>>

\* C7: on a board where the searching player has no valid move the search
\* returns None: the root is the only node ever popped, it gets no children,
\* and the loop ends on the empty frontier, not at the depth cutoff.
C7_NoMovesGivesNone ==
  (pc \in {"loop", "done"} /\ max_depth >= 1
     /\ get_valid_moves(root, player) = <<>>) =>
    /\ pops <= 1
    /\ pops = 1 => (frontier = <<>> /\ cur[1].g_score = 0 /\ outcome # "cutoff")
    /\ Done => (result = None /\ outcome = "exhausted" /\ pops = 1)

\* the opponent could move on the root board, the searching player cannot
C7_Witness ==
  /\ Done
  /\ max_depth = DefaultMaxDepth
  /\ get_valid_moves(root, player) = <<>>
  /\ get_valid_moves(root, -player) # <<>>
  /\ result = None

\* priorityScore of the successor of each valid move of the root, in the
\* order of get_valid_moves
RootScores ==
  LET moves == get_valid_moves(root, player)
  IN  [i \in 1 .. Len(moves) |->
         1 + h_score(player, next_board(root, moves[i][1], moves[i][2], player))]

\* C8: with maximum depth 1 the search returns the valid move whose successor
\* has the lowest score, and among equal lowest scores the first in row-major
\* order.
C8_DepthOneBest ==
  (Done /\ max_depth = 1 /\ get_valid_moves(root, player) # <<>>) =>
    LET moves == get_valid_moves(root, player)
        score == RootScores
    IN  \E i \in 1 .. Len(moves) :
          /\ result = moves[i]
          /\ \A j \in 1 .. Len(moves) :
               /\ score[i] <= score[j]
               /\ j < i => score[i] < score[j]

\* the lowest score is shared by two moves and the earlier one is returned
C8_Witness ==
  /\ Done
  /\ max_depth = 1
  /\ LET moves == get_valid_moves(root, player)
         score == RootScores
     IN  \E i, j \in 1 .. Len(moves) :
           /\ i < j
           /\ result = moves[i]
           /\ score[i] = score[j]

OpeningSearchDone ==
  Done /\ root = InitialBoard /\ player = Black /\ max_depth = DefaultMaxDepth

\* C9 as stated: on the default board the search for Black returns one of
\* (2,3), (3,2), (4,5), (5,4).
C9_CanonicalOpening ==
  OpeningSearchDone =>
    result \in { <<2, 3>>, <<3, 2>>, <<4, 5>>, <<5, 4>> }

\* C9, amended: on the default board the search for Black with the default
\* maximum depth returns a move, one of Black's four valid moves on that board,
\* (2,4), (3,5), (4,2), (5,3); it is in range and on an empty cell.
C9_OpeningMove ==
  OpeningSearchDone =>
    /\ result # None
    /\ result \in { <<2, 4>>, <<3, 5>>, <<4, 2>>, <<5, 3>> }
    /\ result[1] \in Idx /\ result[2] \in Idx
    /\ root[result[1]][result[2]] = Empty

C9_Witness == OpeningSearchDone /\ result = <<2, 4>> /\ outcome = "cutoff"

\* C10: every search returns; no node deeper than the maximum depth is ever in
\* the frontier, and no node of the maximum depth is ever expanded.
C10_Terminates ==
  /\ (pc = "loop") ~> Done
  /\ [](\A i \in 1 .. Len(frontier) : frontier[i].g_score <= max_depth)
  /\ [](outcome = "expanded" => cur[1].g_score < max_depth)

C10_Witness ==
  /\ Done
  /\ outcome = "cutoff"
  /\ max_depth = MaxDepthBound
  /\ pops >= 10
  /\ \E i \in 1 .. Len(frontier) : frontier[i].g_score = max_depth


\* ------------------------------------------------- the evaluation, stated
Cells == Idx \X Idx

Corners == {0, N - 1} \X {0, N - 1}

Border == { c \in Cells : c[1] \in {0, N - 1} \/ c[2] \in {0, N - 1} }

\* the pieces of p on the cells S, minus those of the opponent
Lead(board, S, p) ==
  Cardinality({ c \in S : board[c[1]][c[2]] = p })
    - Cardinality({ c \in S : board[c[1]][c[2]] = -p })

WeightedSum(board) ==
  4 * Lead(board, Corners, Black)
    + 2 * Lead(board, Border \ Corners, Black)
    + Lead(board, Cells \ Border, Black)

\* the value evaluate() gave for the board of a node the search pushed
Evaluated(node) ==
  (IF player = -1 THEN -1 ELSE 1) * (node.f_score - node.g_score)

\* C11: the value evaluate() computed for a board is the sum over the cells of
\* the cell's value (Black +1, White -1, empty 0) times its weight (4 on a
\* corner, 2 on another border cell, 1 elsewhere), and evaluate() of the
\* colour-swapped board is its negation.
C11_EvaluateAntisymmetric ==
  (cur # <<>> /\ cur[1].g_score >= 1) =>
    LET B == cur[1].state
    IN  /\ Evaluated(cur[1]) = WeightedSum(B)
        /\ evaluate(Swap(B)) = -Evaluated(cur[1])

C11_Witness ==
  /\ cur # <<>>
  /\ cur[1].g_score >= 1
  /\ Evaluated(cur[1]) # 0
  /\ \E c \in Corners : cur[1].state[c[1]][c[2]] # Empty
  /\ \E c \in Border \ Corners : cur[1].state[c[1]][c[2]] # Empty


\* the cells of the board holding v
Holding(board, v) == { c \in Cells : board[c[1]][c[2]] = v }

\* C12: before any turn of the game the board of OthelloState() holds 2 Black
\* and 2 White pieces, all on the four centre cells with equal colours on each
\* diagonal, and 60 empty cells, and get_valid_moves gives exactly 4 moves for
\* Black and exactly 4 for White.
C12_DefaultBoard ==
  last.kind = "start" =>
    /\ Cardinality(Holding(state, Black)) = 2
    /\ Cardinality(Holding(state, White)) = 2
    /\ Cardinality(Holding(state, Empty)) = 60
    /\ Holding(state, Black) \cup Holding(state, White) = {3, 4} \X {3, 4}
    /\ state[3][3] = state[4][4]
    /\ state[3][4] = state[4][3]
    /\ Len(get_valid_moves(state, Black)) = 4
    /\ Len(get_valid_moves(state, White)) = 4

\* the first search of the game has expanded the default board into the
\* children of Black's moves
C12_Witness ==
  /\ last.kind = "start"
  /\ outcome = "expanded"
  /\ pops = 1
  /\ Len(frontier) = 4


\* C13: after an input that is not among White's valid moves the board is
\* unchanged and the program is again at White's prompt, and Black places two
\* pieces in a row only when White had no valid move on the board between them.
C13_PromptedAgain ==
  /\ last.kind = "invalid" => (state = last.before /\ turn = "human")
  /\ (last.kind = "place" /\ last.who = Black /\ last.prev = Black) =>
       get_valid_moves(last.before, White) = <<>>


\* the boards this search has expanded
ExpandedBoards == { expanded[i].state : i \in DOMAIN expanded }

\* C14: within one search no board is expanded twice: the explored set starts
\* empty and holds exactly the fingerprints of the boards expanded so far, a
\* popped node is discarded only when its board has been expanded before, and
\* popping a node whose fingerprint is in the explored set only removes it
\* from the frontier, without expanding it or pushing a child.
C14_NoBoardExpandedTwice ==
  /\ [](/\ \A i, j \in DOMAIN expanded :
             i # j => expanded[i].state # expanded[j].state
        /\ explored = { state_hash(b) : b \in ExpandedBoards }
        /\ outcome = "start" => explored = {}
        /\ outcome = "skipped" => cur[1].state \in ExpandedBoards)
  /\ [][(pops' = pops + 1 /\ state_hash(cur'[1].state) \in explored) =>
          /\ Len(frontier') = Len(frontier) - 1
          /\ explored' = explored
          /\ expanded' = expanded]_vars

\* a node is discarded whose board was expanded before under another path
C14_Witness ==
  /\ outcome = "skipped"
  /\ \E i \in DOMAIN expanded :
       /\ expanded[i].state = cur[1].state
       /\ expanded[i].path # cur[1].path


\* the nodes of the frontier
FrontierNodes == { frontier[k] : k \in DOMAIN frontier }

ExpandedNodes == { expanded[i] : i \in DOMAIN expanded }

\* the side placing the piece at ply g of a search for P
SideAtPly(P, g) == IF g % 2 = 0 THEN P ELSE -P

\* node n extends the node parent by one legal move of the side at that ply,
\* and records the first move of its line
Link(parent, n) ==
  /\ n.g_score = parent.g_score + 1
  /\ parent.g_score >= 1 => n.path = parent.path
  /\ \A i \in Idx, j \in Idx : parent.state[i][j] # Empty => n.state[i][j] # Empty
  /\ \E c \in Cells :
       /\ parent.state[c[1]][c[2]] = Empty
       /\ n.state[c[1]][c[2]] # Empty
       /\ RuleValid(parent.state, c[1], c[2], SideAtPly(player, parent.g_score))
       /\ n.state = next_board(parent.state, c[1], c[2],
                               SideAtPly(player, parent.g_score))
       /\ parent.g_score = 0 => n.path = <<c>>

\* node n is the root node, or has a parent among the expanded nodes
Descends(n) ==
  /\ n.g_score >= 0
  /\ n.g_score = 0 <=> n.path = <<>>
  /\ n.g_score = 0 => n.state = root
  /\ n.g_score >= 1 =>
       /\ Len(n.path) = 1
       /\ \E i \in DOMAIN expanded : Link(expanded[i], n)

\* C15: every node of the frontier of depth d >= 1 records exactly one move,
\* and its board comes from the root board by d legal moves, placed by the
\* searching player at even plies and by the opponent at odd plies, of which
\* the first is the recorded move; only a node of depth 0 records no move and
\* it holds the root board.  (The line of d moves is the chain of links
\* through the expanded nodes, which obey the same rule.)
C15_FrontierLineage ==
  /\ \A k \in DOMAIN frontier : Descends(frontier[k])
  /\ \A i \in DOMAIN expanded : Descends(expanded[i])

\* the frontier holds a node three plies deep, behind a move of each side
C15_Witness ==
  /\ pc = "loop"
  /\ \E k \in DOMAIN frontier :
       /\ frontier[k].g_score >= 3
       /\ Descends(frontier[k])


\* the number of non-empty cells of a board
Pieces(board) == N * N - Cardinality(Holding(board, Empty))

\* the nodes the search holds or has held: frontier, expanded, last popped
KnownNodes ==
  FrontierNodes \cup ExpandedNodes \cup { cur[k] : k \in DOMAIN cur }

\* C17: a node of depth d holds a board with exactly d more non-empty cells
\* than the root board, so two nodes with the same board have the same depth
\* and the same side to move, and a node discarded as explored has the depth
\* of the expanded node holding its board.
C17_DepthIsPieceCount ==
  /\ \A n \in KnownNodes : Pieces(n.state) = Pieces(root) + n.g_score
  /\ \A n \in KnownNodes : \A e \in ExpandedNodes :
       n.state = e.state =>
         /\ n.g_score = e.g_score
         /\ SideAtPly(player, n.g_score) = SideAtPly(player, e.g_score)
  /\ outcome = "skipped" =>
       \E e \in ExpandedNodes :
         e.state = cur[1].state /\ e.g_score = cur[1].g_score

\* a node two or more plies deep is discarded for an expanded node holding
\* its board, on a board with captured pieces
C17_Witness ==
  /\ outcome = "skipped"
  /\ cur[1].g_score >= 2
  /\ Pieces(cur[1].state) = Pieces(root) + cur[1].g_score
  /\ \E e \in ExpandedNodes :
       e.state = cur[1].state /\ e.g_score = cur[1].g_score /\ e # cur[1]


\* C16: the game replaces its board only by the result of a legal move of the
\* side placing it: the board is never None, a placed move was valid for its
\* side on the board before (for Black it is the move the search returned,
\* for White the input), the board after it is the one that move produces and
\* has exactly one piece more, and a side without a valid move passes with
\* the board untouched.
C16_OnlyLegalMovesApplied ==
  /\ state # None
  /\ last.kind = "place" =>
       /\ RuleValid(last.before, last.move[1], last.move[2], last.who)
       /\ in_valid_moves(last.move, get_valid_moves(last.before, last.who))
       /\ last.who = Black => last.move = result
       /\ last.before[last.move[1]][last.move[2]] = Empty
       /\ state[last.move[1]][last.move[2]] = last.who
       /\ Changed(last.before, state)
            = {last.move} \cup Flipped(last.before, last.move[1], last.move[2],
                                       last.who)
       /\ Pieces(state) = Pieces(last.before) + 1
  /\ last.kind \in {"pass", "invalid"} => state = last.before
  /\ (last.who \in Players /\ get_valid_moves(last.before, last.who) = <<>>) =>
       last.kind = "pass"

\* both sides have placed pieces and White, without a valid move, has passed
C16_Witness ==
  /\ last.kind = "pass"
  /\ last.who = White
  /\ get_valid_moves(last.before, White) = <<>>
  /\ last.prev = White
  /\ Pieces(state) > 6


\* neither side has a valid move on the game's board
DeadBoard ==
  /\ state # None
  /\ get_valid_moves(state, Black) = <<>>
  /\ get_valid_moves(state, White) = <<>>

\* Black has passed on a search that ran out of nodes, then White has passed
BothPassed ==
  /\ last.kind = "pass"
  /\ last.who = White
  /\ last.prev = White
  /\ outcome = "exhausted"
  /\ result = None
  /\ turn = "ai"

\* C19: once neither side has a valid move the game goes on for ever without
\* change: the board stays, no input is read, the program does not end, every
\* turn that follows is a pass (Black's on a search that returned None), the
\* sides taking turns, and always another search begins that ends in a Black
\* pass followed by a White pass.
C19_NoEndOfGame ==
  /\ [][DeadBoard =>
          /\ state' = state
          /\ inputs' = inputs
          /\ turn' # "raised"
          /\ last' # last =>
               /\ last'.kind = "pass"
               /\ last'.who = -last.who
               /\ last'.who = Black => result = None]_vars
  /\ [](DeadBoard => <>(turn = "search" /\ <>BothPassed))

\* on a board without a move for either side Black and then White have passed
C19_Witness ==
  /\ DeadBoard
  /\ BothPassed
  /\ inputs = MaxInputs


\* C18: the search for one colour on a board and the search for the other
\* colour on the colour-swapped board, with the same maximum depth, pop nodes
\* of the same f_scores in the same order, end the same way and return the
\* same move or both None.
C18_ColourSymmetry ==
  prior # None =>
    /\ root = Swap(prior[1].root)
    /\ player = -prior[1].player
    /\ Len(scores) <= Len(prior[1].scores)
    /\ scores = SubSeq(prior[1].scores, 1, Len(scores))
    /\ pc = "done" =>
         /\ scores = prior[1].scores
         /\ result = prior[1].result
         /\ outcome = prior[1].outcome

\* White's search on the swapped board has returned a move after popping
\* nodes of different scores, as Black's search on the board did
C18_Witness ==
  /\ prior # None
  /\ pc = "done"
  /\ player = White
  /\ result # None
  /\ Len(scores) >= 5
  /\ \E i, j \in DOMAIN scores : scores[i] # scores[j] /\ scores[i] < 0
  /\ scores = prior[1].scores

====
